---- MODULE Spec2Model ----
(***************************************************************************)
(* Model of the deduplication engine of seeker-automations                 *)
(* (src/src/dedupe.py, class Deduplicator) and of the configuration it     *)
(* reads (src/config/settings.py).                                         *)
(*                                                                         *)
(* Conventions                                                             *)
(*  - A Python Optional value is a sequence of length at most one:         *)
(*    None is << >> and a present value x is << x >>.                      *)
(*  - A text is a sequence of characters (one-character strings).          *)
(*  - A Python float score is a fixed-point integer in units of 1/Scale,   *)
(*    so 0.95 is 95 and 1.0 is 100; threshold * 0.8 is compared exactly    *)
(*    by cross-multiplication.                                             *)
(*  - An embedding is a tuple of integers.                                 *)
(***************************************************************************)
EXTENDS Integers, Sequences, FiniteSets, TLC

(***************************************************************************)
(* Bounds of the exploration.                                              *)
(***************************************************************************)
\* longest candidate list of the calls that draw any list of candidates
MaxItems == 2
\* length of the candidate lists of the batch calls
BatchLen == 6

(***************************************************************************)
(* Program constants.                                                      *)
(***************************************************************************)
\* resolution of a float score: similarity_score = n / Scale
Scale == 100
\* text = text[:8000]
MaxEmbedChars == 8000
\* best_match.similarity_score >= 0.95
SkipScore == 95
\* threshold * 0.8, in tenths
NearMatchTenths == 8
\* matches[:5]
TopN == 5
\* DEDUPE_THRESHOLD default "0.85"
DefaultThreshold == 85

None == << >>
Some(x) == << x >>

Min(a, b) == IF a <= b THEN a ELSE b

(***************************************************************************)
(* The external embedding provider: a deterministic map from the text it   *)
(* is sent to a vector.  The vector of a text is the sum of the vectors of *)
(* its characters; the empty text maps to the zero vector.                 *)
(***************************************************************************)
CharVector(c) ==
    CASE c = "q" -> << 1, 0 >>
      [] c = "a" -> << 10, 3 >>
      [] c = "c" -> << 5, 3 >>
      [] c = "d" -> << 4, 3 >>
      [] c = "h" -> << 13, 14 >>
      [] OTHER   -> << 0, 1 >>

RECURSIVE ProviderEmbedding(_)
ProviderEmbedding(text) ==
    IF text = << >> THEN << 0, 0 >>
    ELSE LET v == CharVector(Head(text))
             r == ProviderEmbedding(Tail(text))
         IN  << v[1] + r[1], v[2] + r[2] >>

\* text[:8000]
Truncate(text) == SubSeq(text, 1, Min(Len(text), MaxEmbedChars))

(***************************************************************************)
(* Deduplicator.get_embedding: the n-th provider call of the enclosing     *)
(* check_duplicates call raises when n = fail_at (fail_at = 0: no failure).*)
(***************************************************************************)
get_embedding(text, n, fail_at) ==
    IF n = fail_at
    THEN [raised |-> TRUE, sent |-> Truncate(text), embedding |-> << >>]
    ELSE [raised |-> FALSE, sent |-> Truncate(text),
          embedding |-> ProviderEmbedding(Truncate(text))]

(***************************************************************************)
(* Deduplicator.compute_similarity: cosine similarity as sklearn computes  *)
(* it (each row divided by its norm, a zero norm replaced by 1, then the   *)
(* dot product), truncated toward zero to a multiple of 1/Scale.           *)
(***************************************************************************)
Dot(a, b) == a[1] * b[1] + a[2] * b[2]

\* the largest r in lo..hi with r * r <= q
RECURSIVE SqrtSearch(_, _, _)
SqrtSearch(q, lo, hi) ==
    IF lo >= hi THEN lo
    ELSE LET mid == (lo + hi + 1) \div 2
         IN  IF mid * mid <= q THEN SqrtSearch(q, mid, hi)
             ELSE SqrtSearch(q, lo, mid - 1)

\* a similarity that loses the sign of the dot product
compute_similarity_unsigned(embedding1, embedding2) ==
    LET d == Dot(embedding1, embedding2)
        P == Dot(embedding1, embedding1) * Dot(embedding2, embedding2)
    IN  IF P = 0 THEN 0
        ELSE SqrtSearch((Scale * Scale * d * d) \div P, 0, Scale)

compute_similarity(embedding1, embedding2) ==
    LET d == Dot(embedding1, embedding2)
        P == Dot(embedding1, embedding1) * Dot(embedding2, embedding2)
        m == IF P = 0 THEN 0
             ELSE SqrtSearch((Scale * Scale * d * d) \div P, 0, Scale)
    IN  IF d >= 0 THEN m ELSE 0 - m

(***************************************************************************)
(* dict.get(key, default) on a candidate item.                             *)
(***************************************************************************)
ItemTitle(item) == IF "title" \in DOMAIN item THEN item.title ELSE << "U" >>
ItemDatabase(item) ==
    IF "database" \in DOMAIN item THEN item.database ELSE "unknown"
\* item.get("text", item.get("title", ""))
ItemText(item) ==
    IF "text" \in DOMAIN item THEN item.text
    ELSE IF "title" \in DOMAIN item THEN item.title ELSE << >>

(***************************************************************************)
(* Deduplicator.check_duplicates, piece by piece.                          *)
(***************************************************************************)
\* threshold = threshold or self.threshold  (None and 0 are both falsy)
EffectiveThreshold(threshold, self_threshold) ==
    IF threshold # None /\ threshold[1] # 0 THEN threshold[1]
    ELSE self_threshold

\* variant: a candidate exactly at the floor is left out
IncludedStrict(similarity, threshold) ==
    10 * similarity > NearMatchTenths * threshold

\* similarity >= threshold * 0.8
Included(similarity, threshold) ==
    10 * similarity >= NearMatchTenths * threshold

SimilarityMatch(item, similarity) ==
    [page_id |-> item.page_id, title |-> ItemTitle(item),
     similarity_score |-> similarity, database |-> ItemDatabase(item)]

(***************************************************************************)
(* The loop over existing_items.  cache is the embedding cache so far,     *)
(* matches the matches appended so far and log the provider calls made so  *)
(* far in this check_duplicates call (the call for the new text included). *)
(* A raise leaves the cache as the iterations before it made it.           *)
(***************************************************************************)
\* variant: a raise restores the cache the call started with
RaisedCacheRolledBack(before, during) == before

\* the cache after get_embedding raised inside the loop: the exception
\* propagates and no handler undoes the stores of the earlier iterations
RaisedCache(before, during) == during

\* variant: page p1 is looked up at the provider every time
CacheHitExceptFirstPage(cache, page_id) ==
    page_id \in DOMAIN cache /\ page_id # "p1"

\* variant: the cache is never consulted
CacheNeverHit(cache, page_id) == FALSE

\* page_id in self._embedding_cache
CacheHit(cache, page_id) == page_id \in DOMAIN cache

RECURSIVE ScoreItems(_, _, _, _, _, _, _, _)
ScoreItems(items, i, new_embedding, threshold, cache, matches, log, fail_at) ==
    IF i > Len(items)
    THEN [raised |-> FALSE, cache |-> cache, matches |-> matches, log |-> log]
    ELSE
      LET item == items[i]
          page_id == item.page_id
          hit == CacheHit(cache, page_id)
          got == get_embedding(ItemText(item), Len(log) + 1, fail_at)
          log2 == IF hit THEN log
                  ELSE Append(log, [key |-> page_id, sent |-> got.sent,
                                    ok |-> ~got.raised])
      IN  IF ~hit /\ got.raised
          THEN [raised |-> TRUE, cache |-> cache, matches |-> matches,
                log |-> log2]
          ELSE
            LET existing_embedding ==
                    IF hit THEN cache[page_id] ELSE got.embedding
                cache2 == IF hit THEN cache
                          ELSE cache @@ (page_id :> existing_embedding)
                similarity ==
                    compute_similarity(new_embedding, existing_embedding)
                matches2 ==
                    IF Included(similarity, threshold)
                    THEN Append(matches, SimilarityMatch(item, similarity))
                    ELSE matches
            IN  ScoreItems(items, i + 1, new_embedding, threshold, cache2,
                           matches2, log2, fail_at)

(***************************************************************************)
(* matches.sort(key=lambda m: m.similarity_score, reverse=True): a stable  *)
(* sort, so matches of equal score keep their order of insertion.          *)
(***************************************************************************)
\* variant: reverse=True is missing, the sort is ascending
RECURSIVE InsertMatchAscending(_, _)
InsertMatchAscending(sorted, m) ==
    IF sorted = << >> THEN << m >>
    ELSE IF Head(sorted).similarity_score <= m.similarity_score
         THEN << Head(sorted) >> \o InsertMatchAscending(Tail(sorted), m)
         ELSE << m >> \o sorted

RECURSIVE SortMatchesAscending(_)
SortMatchesAscending(matches) ==
    IF matches = << >> THEN << >>
    ELSE InsertMatchAscending(
             SortMatchesAscending(SubSeq(matches, 1, Len(matches) - 1)),
             matches[Len(matches)])

RECURSIVE InsertMatch(_, _)
InsertMatch(sorted, m) ==
    IF sorted = << >> THEN << m >>
    ELSE IF Head(sorted).similarity_score >= m.similarity_score
         THEN << Head(sorted) >> \o InsertMatch(Tail(sorted), m)
         ELSE << m >> \o sorted

RECURSIVE SortMatches(_)
SortMatches(matches) ==
    IF matches = << >> THEN << >>
    ELSE InsertMatch(SortMatches(SubSeq(matches, 1, Len(matches) - 1)),
                     matches[Len(matches)])

\* best_match = matches[0] if matches else None
BestMatch(matches) ==
    IF matches # << >> THEN Some(matches[1]) ELSE None

\* variant: the comparison with the threshold is strict
IsDuplicateStrict(best_match, threshold) ==
    IF best_match = None THEN None
    ELSE Some(best_match[1].similarity_score > threshold)

\* is_duplicate = best_match and best_match.similarity_score >= threshold
\* (Python's `and` yields its left operand when that is falsy)
IsDuplicate(best_match, threshold) ==
    IF best_match = None THEN None
    ELSE Some(best_match[1].similarity_score >= threshold)

\* variant: the threshold is tested before the skip cutoff
RecommendationThresholdFirst(best_match, threshold) ==
    IF best_match = None THEN "create_new"
    ELSE IF best_match[1].similarity_score >= threshold THEN "append_to"
    ELSE IF best_match[1].similarity_score >= SkipScore THEN "skip"
    ELSE IF Included(best_match[1].similarity_score, threshold) THEN "review"
    ELSE "create_new"

\* variant: the review band excludes its lower end
RecommendationOpenReviewBand(best_match, threshold) ==
    IF best_match = None THEN "create_new"
    ELSE IF best_match[1].similarity_score >= SkipScore THEN "skip"
    ELSE IF best_match[1].similarity_score >= threshold THEN "append_to"
    ELSE IF 10 * best_match[1].similarity_score > NearMatchTenths * threshold
         THEN "review"
    ELSE "create_new"

\* variant: no review band, a best match below the threshold is new
RecommendationNoReview(best_match, threshold) ==
    IF best_match = None THEN "create_new"
    ELSE IF best_match[1].similarity_score >= SkipScore THEN "skip"
    ELSE IF best_match[1].similarity_score >= threshold THEN "append_to"
    ELSE "create_new"

\* variant: a best match in the review band is merged as well
RecommendationAppendFromFloor(best_match, threshold) ==
    IF best_match = None THEN "create_new"
    ELSE IF best_match[1].similarity_score >= SkipScore THEN "skip"
    ELSE IF Included(best_match[1].similarity_score, threshold)
         THEN "append_to"
    ELSE "create_new"

Recommendation(best_match, threshold) ==
    IF best_match = None THEN "create_new"
    ELSE IF best_match[1].similarity_score >= SkipScore THEN "skip"
    ELSE IF best_match[1].similarity_score >= threshold THEN "append_to"
    ELSE IF Included(best_match[1].similarity_score, threshold) THEN "review"
    ELSE "create_new"

\* variant: matches[-5:], the last five of the sorted list
TopMatchesTail(matches) ==
    SubSeq(matches, Len(matches) - Min(Len(matches), TopN) + 1, Len(matches))

\* matches[:5]
TopMatches(matches) == SubSeq(matches, 1, Min(Len(matches), TopN))

DedupeResult(is_duplicate, matches, best_match, recommendation) ==
    [is_duplicate |-> is_duplicate, matches |-> matches,
     best_match |-> best_match, recommendation |-> recommendation]

(***************************************************************************)
(* The whole call.  Returns the new cache, whether the call raised, the    *)
(* DedupeResult when it did not, the threshold it logged and the provider  *)
(* calls it made.                                                          *)
(***************************************************************************)
NoResult == DedupeResult(None, << >>, None, "")

\* variant: the new text is embedded only after the loop over the candidates,
\* so its failure surfaces after the candidates were embedded and cached
check_duplicates_late_raise(cache, default, new_text, existing_items, threshold, fail_at) ==
    LET eff == EffectiveThreshold(threshold, default)
        new == get_embedding(new_text, 1, fail_at)
        log1 == << [key |-> "new_text", sent |-> new.sent,
                    ok |-> ~new.raised] >>
        loop == ScoreItems(existing_items, 1,
                           IF new.raised THEN << 0, 0 >> ELSE new.embedding,
                           eff, cache, << >>, log1, fail_at)
        matches == SortMatches(loop.matches)
        best_match == BestMatch(matches)
    IN  IF new.raised \/ loop.raised
        THEN [raised |-> TRUE, cache |-> loop.cache, result |-> NoResult,
              threshold |-> eff, log |-> loop.log]
        ELSE [raised |-> FALSE, cache |-> loop.cache,
              result |-> DedupeResult(
                            IsDuplicate(best_match, eff),
                            TopMatches(matches),
                            best_match,
                            Recommendation(best_match, eff)),
              threshold |-> eff, log |-> loop.log]

check_duplicates(cache, default, new_text, existing_items, threshold, fail_at) ==
    LET eff == EffectiveThreshold(threshold, default)
        new == get_embedding(new_text, 1, fail_at)
        log1 == << [key |-> "new_text", sent |-> new.sent,
                    ok |-> ~new.raised] >>
    IN  IF new.raised
        THEN [raised |-> TRUE, cache |-> cache, result |-> NoResult,
              threshold |-> eff, log |-> log1]
        ELSE
          LET loop == ScoreItems(existing_items, 1, new.embedding, eff,
                                 cache, << >>, log1, fail_at)
              matches == SortMatches(loop.matches)
              best_match == BestMatch(matches)
          IN  IF loop.raised
              THEN [raised |-> TRUE, cache |-> RaisedCache(cache, loop.cache),
                    result |-> NoResult, threshold |-> eff,
                    log |-> loop.log]
              ELSE [raised |-> FALSE, cache |-> loop.cache,
                    result |-> DedupeResult(
                                  IsDuplicate(best_match, eff),
                                  TopMatches(matches),
                                  best_match,
                                  Recommendation(best_match, eff)),
                    threshold |-> eff, log |-> loop.log]

(***************************************************************************)
(* Inputs of the exploration.                                              *)
(***************************************************************************)
\* an inbox item, a content object, and an item that carries neither "text"
\* nor "database"; against the new text "q" they score 0.95, 0.85 and 0.68
Item1 == [page_id |-> "p1", title |-> << "t" >>, text |-> << "a" >>,
          database |-> "inbox"]
Item2 == [page_id |-> "p2", title |-> << "n" >>, text |-> << "c" >>,
          database |-> "content_objects"]
Item3 == [page_id |-> "p3", title |-> << "h" >>]

Items == {Item1, Item2, Item3}
PageIds == {it.page_id : it \in Items}
NewTexts == {<< "q" >>}
\* a threshold argument: 0, 1.0
Thresholds == {Some(0), Some(100)}
\* settings.dedupe_threshold as the environment configures it
ConfiguredThresholds == {DefaultThreshold}

SeqsOfLen(S, n) == [1..n -> S]
SeqsUpTo(S, n) == UNION {SeqsOfLen(S, k) : k \in 0..n}
\* a batch: BatchLen candidates, all the same item but for at most one
\* Item1 at any position
Batches ==
    {[i \in 1..BatchLen |-> IF i = pos THEN Item1 ELSE fill] :
        pos \in 0..BatchLen, fill \in {Item2, Item3}}

(***************************************************************************)
(* State.                                                                  *)
(***************************************************************************)
VARIABLES
    embedding_cache,  \* Deduplicator._embedding_cache: page_id -> embedding
    self_threshold,   \* Deduplicator.threshold
    outcome,          \* how the last operation ended
    result,           \* the DedupeResult the last check_duplicates returned
    call,             \* the arguments of the last check_duplicates call, the
                      \* threshold it logged and the cache it started from
    provider_log      \* the provider calls the last check_duplicates made

vars == << embedding_cache, self_threshold, outcome, result, call,
           provider_log >>

VARIABLES
    pc,               \* the stage the running entry point executes next
    invocation,       \* entry point and arguments of the running invocation
    pipeline_result,  \* the PipelineResult the entry point builds and returns
    collab_log,       \* the collaborator methods the invocation called, in
                      \* order, each with whether it returned
    store_log         \* the record-store mutation requests of the
                      \* invocation, each with whether the store accepted it

pipeline_vars == << pc, invocation, pipeline_result, collab_log, store_log >>

\* PipelineResult(success, stage_reached, input_type=...), every other field
\* at its dataclass default
PipelineResult(success, stage_reached, input_type) ==
    [success |-> success, stage_reached |-> stage_reached, error |-> None,
     transcript |-> None, classification |-> None, dedupe_result |-> None,
     notion_page_id |-> None, refined_content |-> None,
     platform_outputs |-> << >>, input_type |-> input_type]

NoInvocation == [entry |-> "", auto_refine |-> FALSE, platforms |-> None,
                 page_id |-> None]

\* Pipeline.__init__: no entry point has run
PipelineInit ==
    /\ pc = "idle"
    /\ invocation = NoInvocation
    /\ pipeline_result = PipelineResult(FALSE, "init", "text")
    /\ collab_log = << >>
    /\ store_log = << >>

VARIABLES
    similarity_call,  \* the arguments of a compute_similarity call and,
                      \* once it returned, its value
    classify_call,    \* the text and the model response of a
                      \* Classifier.classify call and, once it ended, its
                      \* outcome
    processing,       \* VoiceMemoHandler.processing
    callbacks,        \* the on_created callbacks of the folder watcher:
                      \* the statement each is at and its file path
    on_disk,          \* the files present in the watched folder
    processed_dir     \* VoiceMemoHandler.processed_dir

watcher_vars == << processing, callbacks, on_disk, processed_dir >>
aux_vars == << similarity_call, classify_call, watcher_vars >>

NoSimilarityCall == [embedding1 |-> << >>, embedding2 |-> << >>,
                     similarity |-> None]

NoClassifyCall == [text |-> << >>, response |-> None, outcome |-> "none"]

\* nothing else than the deduplicator or the pipeline is in use
AuxInit ==
    /\ similarity_call = NoSimilarityCall
    /\ classify_call = NoClassifyCall
    /\ processing = {}
    /\ callbacks = << >>
    /\ on_disk = {}
    /\ processed_dir = None

NoCall == [new_text |-> << >>, existing_items |-> << >>, threshold |-> None,
           effective |-> 0, cache_before |-> << >>]

\* Deduplicator.__init__
DeduplicatorInit ==
    /\ embedding_cache = << >>
    /\ self_threshold \in ConfiguredThresholds
    /\ outcome = "init"
    /\ result = NoResult
    /\ call = NoCall
    /\ provider_log = << >>

Init ==
    /\ DeduplicatorInit
    /\ PipelineInit
    /\ AuxInit

\* number of entries of log that are provider calls for page_id
CallsFor(log, page_id) ==
    Cardinality({k \in 1..Len(log) : log[k].key = page_id})

\* one check_duplicates call on the Deduplicator
Call(new_text, existing_items, threshold, fail_at) ==
    \E r \in {check_duplicates(embedding_cache, self_threshold, new_text,
                              existing_items, threshold, fail_at)} :
        /\ embedding_cache' = r.cache
        /\ outcome' = IF r.raised THEN "raised" ELSE "returned"
        /\ result' = r.result
        /\ call' = [new_text |-> new_text, existing_items |-> existing_items,
                    threshold |-> threshold, effective |-> r.threshold,
                    cache_before |-> embedding_cache]
        /\ provider_log' = r.log
        /\ UNCHANGED self_threshold
        /\ UNCHANGED aux_vars

\* check_duplicates(new_text, existing_items): the default threshold, the
\* provider failing at any of the calls made to it (fail_at = 0: at none)
CheckDuplicates ==
    \E new_text \in NewTexts, existing_items \in SeqsUpTo(Items, MaxItems) :
        \E fail_at \in 0..(Len(existing_items) + 1) :
            /\ Call(new_text, existing_items, None, fail_at)
            /\ UNCHANGED pipeline_vars

\* check_duplicates(new_text, existing_items, threshold)
CheckDuplicatesThreshold ==
    \E new_text \in NewTexts, existing_items \in SeqsUpTo(Items, MaxItems),
       threshold \in Thresholds :
        /\ Call(new_text, existing_items, threshold, 0)
        /\ UNCHANGED pipeline_vars

\* check_duplicates on a batch of more than five candidates
CheckDuplicatesBatch ==
    \E new_text \in NewTexts, existing_items \in Batches :
        /\ Call(new_text, existing_items, None, 0)
        /\ UNCHANGED pipeline_vars

\* Deduplicator.clear_cache
ClearCache ==
    /\ embedding_cache' = << >>
    /\ outcome' = "cleared"
    /\ UNCHANGED << self_threshold, result, call, provider_log >>
    /\ UNCHANGED pipeline_vars
    /\ UNCHANGED aux_vars

Next ==
    \/ CheckDuplicates
    \/ CheckDuplicatesThreshold
    \/ CheckDuplicatesBatch
    \/ ClearCache

Spec == Init /\ [][Next]_vars

TypeOK ==
    /\ outcome \in {"init", "returned", "raised", "cleared"}
    /\ DOMAIN embedding_cache \subseteq PageIds

(***************************************************************************)
(* Vocabulary of the properties.                                           *)
(***************************************************************************)
Returned == outcome = "returned"
Raised == outcome = "raised"
Called == outcome \in {"returned", "raised"}

HasBest == result.best_match # None
BestScore == result.best_match[1].similarity_score
NumItems == Len(call.existing_items)
ItemPages == {call.existing_items[i].page_id : i \in 1..NumItems}

\* the similarity of the i-th candidate of a returned call: the new text's
\* embedding against the embedding the cache holds for the candidate's page
CandScore(i) ==
    compute_similarity(ProviderEmbedding(Truncate(call.new_text)),
                       embedding_cache[call.existing_items[i].page_id])
CandMatch(i) ==
    [page_id |-> call.existing_items[i].page_id,
     title |-> ItemTitle(call.existing_items[i]),
     similarity_score |-> CandScore(i),
     database |-> ItemDatabase(call.existing_items[i])]
\* score >= 0.8 * effective threshold
AtFloor(i) == 5 * CandScore(i) >= 4 * call.effective
\* the included candidates that rank ahead of candidate i
AheadOf(i) ==
    {j \in (1..NumItems) \ {i} :
        /\ AtFloor(j)
        /\ \/ CandScore(j) > CandScore(i)
           \/ CandScore(j) = CandScore(i) /\ j < i}

(***************************************************************************)
(* C1: the recommendation follows the priority order on the best match's   *)
(* score s: no match -> create_new; s >= 0.95 -> skip, whatever the        *)
(* threshold; else s >= threshold -> append_to; else s >= 0.8 * threshold  *)
(* -> review; otherwise create_new.                                        *)
(***************************************************************************)
RecommendationPolicy ==
    Returned =>
        result.recommendation =
            IF ~HasBest THEN "create_new"
            ELSE IF BestScore >= 95 THEN "skip"
            ELSE IF BestScore >= call.effective THEN "append_to"
            ELSE IF 5 * BestScore >= 4 * call.effective THEN "review"
            ELSE "create_new"

\* a best match of exactly 0.95 under a threshold of 1.0 is skipped
SkipAtBoundaryReached ==
    /\ Returned /\ HasBest
    /\ BestScore = 95 /\ call.effective = 100
    /\ result.recommendation = "skip"

(***************************************************************************)
(* C2: an empty candidate list yields recommendation create_new, no        *)
(* matches, and is_duplicate equal to the boolean false.                   *)
(***************************************************************************)
EmptyCandidatesResult ==
    (Returned /\ call.existing_items = << >>) =>
        /\ result.recommendation = "create_new"
        /\ result.matches = << >>
        /\ result.is_duplicate = Some(FALSE)

(***************************************************************************)
(* C3 as stated: a best match score s with 0.8 * threshold <= s <          *)
(* threshold yields recommendation review, for every threshold.            *)
(***************************************************************************)
ReviewBandAnyThreshold ==
    (/\ Returned /\ HasBest
     /\ 5 * BestScore >= 4 * call.effective
     /\ BestScore < call.effective)
        => result.recommendation = "review"

(***************************************************************************)
(* C3 amended: a best match score s with 0.8 * threshold <= s < threshold  *)
(* and s < 0.95 yields recommendation review.                              *)
(***************************************************************************)
ReviewBandBelowSkip ==
    (/\ Returned /\ HasBest
     /\ 5 * BestScore >= 4 * call.effective
     /\ BestScore < call.effective
     /\ BestScore < 95)
        => result.recommendation = "review"

\* a best match exactly at the inclusion floor is put up for review
ReviewAtFloorReached ==
    /\ Returned /\ HasBest
    /\ 5 * BestScore = 4 * call.effective
    /\ result.recommendation = "review"

(***************************************************************************)
(* C4: is_duplicate is true exactly when a best match exists and its score *)
(* is at least the effective threshold.                                    *)
(***************************************************************************)
IsDuplicateIffAtThreshold ==
    Returned =>
        ((result.is_duplicate = Some(TRUE))
            <=> (HasBest /\ BestScore >= call.effective))

\* a best match scoring exactly the threshold is a duplicate
DuplicateAtThresholdReached ==
    /\ Returned /\ HasBest
    /\ BestScore = call.effective
    /\ result.is_duplicate = Some(TRUE)

(***************************************************************************)
(* C5: the effective threshold is the caller's threshold whenever one is   *)
(* supplied, 0 included, and the configured default only when none is.     *)
(***************************************************************************)
SuppliedThresholdIsUsed ==
    Called =>
        call.effective =
            IF call.threshold # None THEN call.threshold[1]
            ELSE self_threshold

(***************************************************************************)
(* C6: a candidate is in matches only if its score is at least 0.8 * the   *)
(* effective threshold; a candidate below that floor is absent, and a      *)
(* candidate at or above it is present unless at least five other included *)
(* candidates rank ahead of it.                                            *)
(***************************************************************************)
InclusionFloor ==
    Returned =>
        /\ \A k \in 1..Len(result.matches) :
              /\ 5 * result.matches[k].similarity_score >= 4 * call.effective
              /\ \E i \in 1..NumItems : result.matches[k] = CandMatch(i)
        /\ \A i \in 1..NumItems :
              ~AtFloor(i) =>
                  \A k \in 1..Len(result.matches) :
                      result.matches[k].page_id
                          # call.existing_items[i].page_id
        /\ \A i \in 1..NumItems :
              (AtFloor(i) /\ Cardinality(AheadOf(i)) < 5) =>
                  \E k \in 1..Len(result.matches) :
                      result.matches[k] = CandMatch(i)

\* one candidate at or above the floor is a match while another candidate
\* of the same call, below the floor, is not
FloorSplitsCandidatesReached ==
    /\ Returned
    /\ \E i, j \in 1..NumItems :
          /\ AtFloor(i)
          /\ \E k \in 1..Len(result.matches) : result.matches[k] = CandMatch(i)
          /\ ~AtFloor(j)

(***************************************************************************)
(* C7: matches is sorted in non-increasing order of similarity score and   *)
(* has at most 5 entries.                                                  *)
(***************************************************************************)
MatchesSortedTopFive ==
    Returned =>
        /\ Len(result.matches) <= 5
        /\ \A k, l \in 1..Len(result.matches) :
              k < l => result.matches[k].similarity_score
                          >= result.matches[l].similarity_score

\* more than five candidates, given out of order, were cut to five matches
\* of differing scores
UnsortedBatchCutReached ==
    /\ Returned
    /\ NumItems > 5
    /\ Len(result.matches) = 5
    /\ \E i, j \in 1..NumItems : i < j /\ CandScore(i) < CandScore(j)
    /\ result.matches[1].similarity_score > result.matches[5].similarity_score

(***************************************************************************)
(* C8: best_match equals matches[0] when matches is non-empty and is       *)
(* absent when matches is empty, also when more than five candidates pass  *)
(* the inclusion filter.                                                   *)
(***************************************************************************)
BestMatchIsFirstMatch ==
    Returned =>
        IF result.matches # << >>
        THEN result.best_match = Some(result.matches[1])
        ELSE result.best_match = None

\* more than five candidates passed the filter, the lowest-scoring ones
\* first, and the best match heads the five that were kept
BestOfMoreThanFiveReached ==
    /\ Returned
    /\ Cardinality({i \in 1..NumItems : AtFloor(i)}) > 5
    /\ CandScore(1) < CandScore(NumItems)
    /\ result.best_match = Some(result.matches[1])

(***************************************************************************)
(* C9 as stated: with no clear_cache in between, the provider is invoked   *)
(* for a candidate page_id at most once (stated for every two consecutive  *)
(* calls), and the first call after clear_cache invokes the provider for   *)
(* every page_id it contains.                                              *)
(***************************************************************************)
ProviderOncePerPage ==
    [][/\ (Called /\ Called') =>
              \A p \in PageIds :
                  CallsFor(provider_log, p) + CallsFor(provider_log', p) <= 1
       /\ (outcome = "cleared" /\ Called') =>
              \A p \in ItemPages' : CallsFor(provider_log', p) >= 1]_vars

(***************************************************************************)
(* C9 amended: a cache hit makes no provider call; within one call the     *)
(* provider is invoked at most once per page_id, and every embedding it    *)
(* returns is cached, so it never returns one twice for a page_id without  *)
(* a clear_cache in between (a page_id whose provider call failed is not   *)
(* cached and is embedded again by a later call); the first call after     *)
(* clear_cache, when it returns a result, has invoked the provider exactly *)
(* once for every page_id it contains.                                     *)
(***************************************************************************)
CacheSparesProvider ==
    [][Called' =>
          /\ \A p \in DOMAIN embedding_cache : CallsFor(provider_log', p) = 0
          /\ \A p \in PageIds : CallsFor(provider_log', p) <= 1
          /\ \A k \in 1..Len(provider_log') :
                (provider_log'[k].ok /\ provider_log'[k].key \in PageIds) =>
                    provider_log'[k].key \in DOMAIN embedding_cache'
          /\ (outcome = "cleared" /\ Returned') =>
                \A p \in ItemPages' : CallsFor(provider_log', p) = 1]_vars

\* a returned call found one of its pages in the cache, made no provider
\* call for it, and embedded another page that was not cached
CacheHitAndMissReached ==
    /\ Returned
    /\ \E p \in ItemPages \cap DOMAIN call.cache_before :
          CallsFor(provider_log, p) = 0
    /\ \E p \in ItemPages \ DOMAIN call.cache_before :
          CallsFor(provider_log, p) = 1

(***************************************************************************)
(* C10: when the provider fails for the new text, check_duplicates raises: *)
(* there is no DedupeResult, no candidate is embedded, and the embedding   *)
(* cache is what it was before the call.                                   *)
(***************************************************************************)
NewTextFailureIsFatal ==
    (Called /\ ~provider_log[1].ok) =>
        /\ Raised
        /\ result = NoResult
        /\ Len(provider_log) = 1
        /\ embedding_cache = call.cache_before

\* the provider failed for the new text of a call that came with a
\* non-empty cache and with a candidate that was not cached yet
NewTextFailureReached ==
    /\ Raised
    /\ ~provider_log[1].ok
    /\ call.cache_before # << >>
    /\ ItemPages \ DOMAIN call.cache_before # {}

(***************************************************************************)
(* The pipeline (src/pipeline.py) and its collaborators. A collaborator    *)
(* is an external service: whether a call to it returns or raises is an    *)
(* input of the step that makes the call.                                  *)
(***************************************************************************)
\* the query bound: rows a record-store query returns
MaxRows == 1

all_vars == << vars, pipeline_vars >>

\* rows of query_inbox and of query_content_objects, as _parse_query_results
\* builds them (the keys the pipeline reads)
InboxRows == {[id |-> "p1", title |-> << "a" >>],
              [id |-> "p2", title |-> << "c" >>]}
ContentRows == {[id |-> "p3", name |-> << "c" >>, main_idea |-> None]}

\* the id the record store gives the page it creates
NewPageId == "n1"

\* ClassificationResult values the classifier answers with
Classifications ==
    {[title |-> << "T" >>, content_type |-> "Essay", category |-> "k",
      tags |-> << "g" >>],
     [title |-> << "V" >>, content_type |-> "Video", category |-> "k",
      tags |-> << >>]}

\* RefinedContent values the refiner answers with: data.get(...) keeps a
\* JSON null, so core_aphorism and a fragment's linked_concepts may be None
Fragment(linked_concepts) ==
    [fragment_type |-> "supporting", content |-> << "s" >>,
     linked_concepts |-> linked_concepts]
RefinedContents ==
    {[title |-> << "T" >>, core_aphorism |-> Some(<< "x" >>),
      fragments |-> << Fragment(Some(<< >>)) >>],
     [title |-> << "T" >>, core_aphorism |-> Some(<< "x" >>),
      fragments |-> << Fragment(None) >>],
     [title |-> << "T" >>, core_aphorism |-> None,
      fragments |-> << Fragment(Some(<< >>)) >>]}

\* the platforms argument: None, or a list of platform names; "tiktok" is a
\* name no formatter exists for
PlatformNames == {"twitter_thread", "linkedin", "tiktok"}
PlatformRequests ==
    {None, Some(<< >>)} \cup
    {Some(<< p >>) : p \in PlatformNames} \cup
    {Some(<< p, q >>) : p, q \in PlatformNames}

\* the record-store request that raises during the store action, if any
ApiFailures == {"none", "pages.create", "blocks.children.append"}

CollabCall(name, ok) == [name |-> name, ok |-> ok]

(***************************************************************************)
(* NotionClient                                                            *)
(***************************************************************************)
StoreRequest(op, page, payload, ok) ==
    [op |-> op, page |-> page, payload |-> payload, ok |-> ok]

\* NotionClient._append_page_content: one blocks.children.append request,
\* inside try/except Exception that logs and returns
append_page_content(page_id, blocks, api_fail) ==
    [raised |-> FALSE,
     log |-> << StoreRequest("append", page_id, blocks,
                             api_fail # "blocks.children.append") >>]

\* NotionClient.append_to_page: heading, paragraph and timestamp blocks in
\* one _append_page_content call
append_to_page(page_id, text, api_fail) ==
    append_page_content(page_id, text, api_fail)

\* InboxItem(title=..., status="New", tags=..., type=..., raw_transcript=...)
InboxItem(title, tags, type, raw_transcript) ==
    [title |-> title, status |-> "New", tags |-> tags, type |-> type,
     raw_transcript |-> raw_transcript]

\* NotionClient.create_inbox_item: pages.create, then the transcript as
\* page body through _append_page_content
create_inbox_item(item, api_fail) ==
    IF api_fail = "pages.create"
    THEN [raised |-> TRUE, response |-> None,
          log |-> << StoreRequest("create", NewPageId, item, FALSE) >>]
    ELSE LET body == IF item.raw_transcript # << >>
                     THEN append_page_content(NewPageId, item.raw_transcript,
                                              api_fail).log
                     ELSE << >>
         IN  [raised |-> FALSE, response |-> Some([id |-> NewPageId]),
              log |-> << StoreRequest("create", NewPageId, item, TRUE) >>
                      \o body]

(***************************************************************************)
(* TemplateEngine                                                          *)
(***************************************************************************)
PlatformOutput(platform) == [platform |-> platform]

NullConcepts(refined) ==
    \E i \in 1..Len(refined.fragments) :
        refined.fragments[i].linked_concepts = None

\* format_twitter_thread: len(refined.core_aphorism)
format_twitter_thread(refined) ==
    [raised |-> refined.core_aphorism = None,
     output |-> PlatformOutput("twitter_thread")]

\* format_linkedin: "\n".join(lines) with the aphorism among the lines,
\* all_concepts.update(frag.linked_concepts) for every fragment
format_linkedin(refined) ==
    [raised |-> refined.core_aphorism = None \/ NullConcepts(refined),
     output |-> PlatformOutput("linkedin")]

\* format_substack: "\n".join(lines) with the aphorism among the lines
format_substack(refined) ==
    [raised |-> refined.core_aphorism = None,
     output |-> PlatformOutput("substack")]

\* format_video_script: "\n".join(lines) with the aphorism as HOOK script
format_video_script(refined) ==
    [raised |-> refined.core_aphorism = None,
     output |-> PlatformOutput("video_script")]

\* the formatter format_all runs for a key of the dict it builds
Formatter(platform, refined) ==
    CASE platform = "twitter_thread" -> format_twitter_thread(refined)
      [] platform = "linkedin" -> format_linkedin(refined)
      [] platform = "substack" -> format_substack(refined)
      [] platform = "video_script" -> format_video_script(refined)

FormatAllKeys == {"twitter_thread", "linkedin", "substack", "video_script"}

\* TemplateEngine.format_all: the dict literal runs the four formatters
format_all(refined) ==
    [raised |-> \E k \in FormatAllKeys : Formatter(k, refined).raised,
     outputs |-> [k \in FormatAllKeys |-> Formatter(k, refined).output]]

\* a dict.get that answers an unknown key with the value of some key
DictGetAnyValue(d, key) ==
    IF key \in DOMAIN d THEN Some(d[key])
    ELSE Some(d[CHOOSE k \in DOMAIN d : TRUE])

\* dict.get(key)
DictGet(d, key) == IF key \in DOMAIN d THEN Some(d[key]) ELSE None

\* the loop over the requested platforms, from platform i on: one format_all
\* call per platform inside its own try/except, the output kept when
\* .get(platform) finds one
RECURSIVE TemplateLoop(_, _, _, _, _)
TemplateLoop(platforms, i, refined, outputs, log) ==
    IF i > Len(platforms) THEN [outputs |-> outputs, log |-> log]
    ELSE LET r == format_all(refined)
             output == IF r.raised THEN None
                       ELSE DictGet(r.outputs, platforms[i])
         IN  TemplateLoop(platforms, i + 1, refined,
                 IF output # None
                 THEN (platforms[i] :> output[1]) @@ outputs
                 ELSE outputs,
                 Append(log, CollabCall("format_all", ~r.raised)))

(***************************************************************************)
(* Pipeline: the stages of _process_text_internal, process_audio and       *)
(* refine_existing.                                                        *)
(***************************************************************************)
\* for item in inbox_items: existing.append({...})
InboxCandidate(item) ==
    [page_id |-> item.id, title |-> item.title, text |-> item.title,
     database |-> "inbox"]

\* for item in content_items: existing.append({...})
ContentCandidate(item) ==
    [page_id |-> item.id, title |-> item.name,
     text |-> item.name \o << " " >> \o
              (IF item.main_idea = None THEN << >> ELSE item.main_idea[1]),
     database |-> "content_objects"]

Existing(inbox_items, content_items) ==
    [i \in 1..Len(inbox_items) |-> InboxCandidate(inbox_items[i])] \o
    [i \in 1..Len(content_items) |-> ContentCandidate(content_items[i])]

\* an except clause that records nothing
ExceptDropsError(res, e) == [pc |-> "returned", res |-> res]

\* an except clause that lets the exception go on to the caller
ExceptReraises(res, e) == [pc |-> "raised", res |-> res]

\* an except clause that forgets the record the store action wrote to
ExceptForgetsRecord(res, e) ==
    [pc |-> "returned",
     res |-> [res EXCEPT !.error = Some(e), !.notion_page_id = None]]

\* except Exception as e: result.error = str(e), then return result
Except(res, e) ==
    [pc |-> "returned", res |-> [res EXCEPT !.error = Some(e)]]

\* a classify stage that records the stage name of the transcriber
ClassifiedAsTranscribe(res, classification) ==
    [res EXCEPT !.classification = Some(classification),
                !.stage_reached = "transcribe"]

\* result.classification = ...; result.stage_reached = "classify"
Classified(res, classification) ==
    [res EXCEPT !.classification = Some(classification),
                !.stage_reached = "classify"]

\* result.dedupe_result = ...; result.stage_reached = "dedupe"
Deduped(res, dedupe_result) ==
    [res EXCEPT !.dedupe_result = Some(dedupe_result),
                !.stage_reached = "dedupe"]

\* a store action that records the stage name of the template loop
StoredAsTemplate(res, notion_page_id) ==
    [res EXCEPT !.notion_page_id = notion_page_id,
                !.stage_reached = "template"]

\* result.notion_page_id = ...; result.stage_reached = "notion"
Stored(res, notion_page_id) ==
    [res EXCEPT !.notion_page_id = notion_page_id,
                !.stage_reached = "notion"]

\* result.refined_content = ...; result.stage_reached = "refine"
Refined(res, refined_content) ==
    [res EXCEPT !.refined_content = Some(refined_content),
                !.stage_reached = "refine"]

\* result.platform_outputs[platform] = output for the platforms of the
\* loop; result.stage_reached = "template"
Templated(res, platform_outputs) ==
    [res EXCEPT !.platform_outputs = platform_outputs,
                !.stage_reached = "template"]

\* result.success = True
Succeed(res) == [res EXCEPT !.success = TRUE]

\* a refine stage that runs whatever the caller asked
RefineAlways(auto_refine) == TRUE

\* if auto_refine:
RefineRequested(auto_refine) == auto_refine

\* if platforms:
TemplateRequested(platforms) == platforms # None /\ platforms[1] # << >>

StoreOutcome(raised, calls, requests, notion_page_id) ==
    [raised |-> raised, calls |-> calls, requests |-> requests,
     notion_page_id |-> notion_page_id]

\* a skip branch that appends to the best match's page all the same
SkipActionAppends(dedupe_result) ==
    StoreOutcome(FALSE, << CollabCall("append_to_page", TRUE) >>,
                 append_to_page(dedupe_result.best_match[1].page_id, << >>,
                                "none").log,
                 Some(dedupe_result.best_match[1].page_id))

\* recommendation == "skip": the best match's page, no record-store call
SkipAction(dedupe_result) ==
    StoreOutcome(FALSE, << >>, << >>,
                 Some(dedupe_result.best_match[1].page_id))

\* recommendation == "append_to": append_to_page on the best match's page
AppendAction(dedupe_result, text, api_fail) ==
    LET page_id == dedupe_result.best_match[1].page_id
        r == append_to_page(page_id, text, api_fail)
    IN  StoreOutcome(r.raised,
                     << CollabCall("append_to_page", ~r.raised) >>,
                     r.log, Some(page_id))

\* an inbox item titled with the raw text
NewInboxItemFromText(classification, text) ==
    InboxItem(text, classification.tags, classification.content_type, text)

\* inbox_item = InboxItem(title=result.classification.title, ...)
NewInboxItem(classification, text) ==
    InboxItem(classification.title, classification.tags,
              classification.content_type, text)

\* else: create_inbox_item, the identifier is response["id"]
CreateAction(classification, text, api_fail) ==
    LET r == create_inbox_item(NewInboxItem(classification, text), api_fail)
    IN  StoreOutcome(r.raised,
                     << CollabCall("create_inbox_item", ~r.raised) >>,
                     r.log,
                     IF r.raised THEN None ELSE Some(r.response[1].id))

\* Stage 4: the branch on result.dedupe_result.recommendation
store_action(dedupe_result, classification, text, api_fail) ==
    IF dedupe_result.recommendation = "skip"
    THEN SkipAction(dedupe_result)
    ELSE IF dedupe_result.recommendation = "append_to"
    THEN AppendAction(dedupe_result, text, api_fail)
    ELSE CreateAction(classification, text, api_fail)

\* the text the stages work on
Text == pipeline_result.transcript[1]

\* one step of the running entry point
Step(next, res, calls, requests) ==
    /\ pc' = next
    /\ pipeline_result' = res
    /\ collab_log' = collab_log \o calls
    /\ store_log' = store_log \o requests
    /\ UNCHANGED invocation
    /\ UNCHANGED aux_vars

\* a collaborator raised: the except clause of the entry point
Raise(calls, requests, e) ==
    \E x \in {Except(pipeline_result, e)} :
        Step(x.pc, x.res, calls, requests)

\* an entry point is called on the pipeline: a fresh PipelineResult
Enter(entry, auto_refine, platforms, page_id, res, first) ==
    /\ pc \in {"idle", "returned"}
    /\ pc' = first
    /\ invocation' = [entry |-> entry, auto_refine |-> auto_refine,
                      platforms |-> platforms, page_id |-> page_id]
    /\ pipeline_result' = res
    /\ collab_log' = << >>
    /\ store_log' = << >>
    /\ outcome' = "init"
    /\ result' = NoResult
    /\ call' = NoCall
    /\ provider_log' = << >>
    /\ UNCHANGED << embedding_cache, self_threshold >>
    /\ UNCHANGED aux_vars

\* Pipeline.process_text up to the call of _process_text_internal
process_text ==
    \E text \in NewTexts, auto_refine \in BOOLEAN,
       platforms \in PlatformRequests :
        Enter("process_text", auto_refine, platforms, None,
              [PipelineResult(FALSE, "init", "text")
                   EXCEPT !.transcript = Some(text)],
              "classify")

\* Pipeline.process_audio up to the call of the transcriber
process_audio ==
    \E auto_refine \in BOOLEAN, platforms \in PlatformRequests :
        Enter("process_audio", auto_refine, platforms, None,
              PipelineResult(FALSE, "init", "audio"), "transcribe")

\* Pipeline.refine_existing up to the call of get_page_content
refine_existing ==
    \E page_id \in {"p1"}, platforms \in PlatformRequests :
        Enter("refine_existing", FALSE, platforms, Some(page_id),
              PipelineResult(FALSE, "init", "notion_page"), "get_page")

\* Stage 1 of process_audio: transcriber.transcribe
Transcribe ==
    /\ pc = "transcribe"
    /\ \/ \E text \in NewTexts :
            Step("classify",
                 [pipeline_result EXCEPT !.transcript = Some(text),
                                         !.stage_reached = "transcribe"],
                 << CollabCall("transcribe", TRUE) >>, << >>)
       \/ Raise(<< CollabCall("transcribe", FALSE) >>, << >>, "transcribe")
    /\ UNCHANGED vars

\* Stage 2: classifier.classify
Classify ==
    /\ pc = "classify"
    /\ \/ \E classification \in Classifications :
            Step("dedupe", Classified(pipeline_result, classification),
                 << CollabCall("classify", TRUE) >>, << >>)
       \/ Raise(<< CollabCall("classify", FALSE) >>, << >>, "classify")
    /\ UNCHANGED vars

\* Stage 3: query_inbox, query_content_objects, check_duplicates
Dedupe ==
    /\ pc = "dedupe"
    /\ \/ /\ Raise(<< CollabCall("query_inbox", FALSE) >>, << >>,
                   "query_inbox")
          /\ UNCHANGED vars
       \/ /\ Raise(<< CollabCall("query_inbox", TRUE),
                      CollabCall("query_content_objects", FALSE) >>, << >>,
                   "query_content_objects")
          /\ UNCHANGED vars
       \/ \E inbox_items \in SeqsUpTo(InboxRows, MaxRows),
             content_items \in SeqsUpTo(ContentRows, MaxRows) :
            \E fail_at \in 0..(Len(inbox_items) + Len(content_items) + 1) :
                /\ Call(Text, Existing(inbox_items, content_items), None,
                        fail_at)
                /\ IF outcome' = "raised"
                   THEN Raise(<< CollabCall("query_inbox", TRUE),
                                 CollabCall("query_content_objects", TRUE),
                                 CollabCall("check_duplicates", FALSE) >>,
                              << >>, "check_duplicates")
                   ELSE Step("notion", Deduped(pipeline_result, result'),
                             << CollabCall("query_inbox", TRUE),
                                CollabCall("query_content_objects", TRUE),
                                CollabCall("check_duplicates", TRUE) >>,
                             << >>)

\* Stage 4: the store action, then Stage 5 if auto_refine, else success
StoreAction ==
    /\ pc = "notion"
    /\ \E api_fail \in ApiFailures :
         \E r \in {store_action(pipeline_result.dedupe_result[1],
                                pipeline_result.classification[1], Text,
                                api_fail)} :
            IF r.raised
            THEN Raise(r.calls, r.requests, "create_inbox_item")
            ELSE \E res \in {Stored(pipeline_result, r.notion_page_id)} :
                    IF RefineRequested(invocation.auto_refine)
                    THEN Step("refine", res, r.calls, r.requests)
                    ELSE Step("returned", Succeed(res), r.calls, r.requests)
    /\ UNCHANGED vars

\* Stage 5, and the refine step of refine_existing: refiner.refine, then
\* the template loop if platforms, else success
Refine ==
    /\ pc = "refine"
    /\ \/ \E refined_content \in RefinedContents :
            \E res \in {Refined(pipeline_result, refined_content)} :
                IF TemplateRequested(invocation.platforms)
                THEN Step("template", res,
                          << CollabCall("refine", TRUE) >>, << >>)
                ELSE Step("returned", Succeed(res),
                          << CollabCall("refine", TRUE) >>, << >>)
       \/ Raise(<< CollabCall("refine", FALSE) >>, << >>, "refine")
    /\ UNCHANGED vars

\* Stage 6, and the template loop of refine_existing, then success
Template ==
    /\ pc = "template"
    /\ \E r \in {TemplateLoop(invocation.platforms[1], 1,
                              pipeline_result.refined_content[1],
                              pipeline_result.platform_outputs, << >>)} :
            Step("returned", Succeed(Templated(pipeline_result, r.outputs)),
                 r.log, << >>)
    /\ UNCHANGED vars

\* refine_existing: notion.get_page_content
GetPageContent ==
    /\ pc = "get_page"
    /\ \/ \E content \in NewTexts :
            Step("refine",
                 [pipeline_result EXCEPT
                      !.transcript = Some(content),
                      !.notion_page_id = invocation.page_id],
                 << CollabCall("get_page_content", TRUE) >>, << >>)
       \/ Raise(<< CollabCall("get_page_content", FALSE) >>, << >>,
                "get_page_content")
    /\ UNCHANGED vars

NextPipeline ==
    \/ process_text
    \/ process_audio
    \/ refine_existing
    \/ Transcribe
    \/ Classify
    \/ Dedupe
    \/ StoreAction
    \/ Refine
    \/ Template
    \/ GetPageContent

SpecPipeline == Init /\ [][NextPipeline]_all_vars

PipelineTypeOK ==
    /\ pc \in {"idle", "transcribe", "classify", "dedupe", "notion",
               "refine", "template", "get_page", "returned", "raised"}
    /\ pipeline_result.success \in BOOLEAN

(***************************************************************************)
(* Vocabulary of the pipeline properties.                                  *)
(***************************************************************************)
\* the invocation is one of process_text or process_audio
TextOrAudio == invocation.entry \in {"process_text", "process_audio"}
PipelineReturned == pc = "returned"
StageReached == pipeline_result.stage_reached
\* the invocation called the collaborator method
CalledCollab(name) ==
    \E k \in 1..Len(collab_log) : collab_log[k].name = name
\* the store-action stage of the invocation has completed
StoreActionDone ==
    TextOrAudio /\ StageReached \in {"notion", "refine", "template"}
PipelineRecommendation == pipeline_result.dedupe_result[1].recommendation
PipelineBestPage == pipeline_result.dedupe_result[1].best_match[1].page_id
\* requests of the invocation of kind op that the record store accepted
Accepted(op) ==
    {k \in 1..Len(store_log) : store_log[k].op = op /\ store_log[k].ok}

StageIndex(stage) ==
    CASE stage = "init" -> 0
      [] stage = "transcribe" -> 1
      [] stage = "classify" -> 2
      [] stage = "dedupe" -> 3
      [] stage = "notion" -> 4
      [] stage = "refine" -> 5
      [] stage = "template" -> 6

(***************************************************************************)
(* C11: in a process_text or process_audio invocation stage_reached starts *)
(* at init and every change takes it to the next stage of the order init,  *)
(* transcribe, classify, dedupe, notion, refine, template (process_text    *)
(* going from init to classify); it is transcribe only in process_audio.   *)
(***************************************************************************)
StageOrderStep ==
    (invocation'.entry \in {"process_text", "process_audio"}) =>
        /\ (pipeline_result'.stage_reached = "transcribe" =>
                invocation'.entry = "process_audio")
        /\ \/ pc \in {"idle", "returned"} /\
              pipeline_result'.stage_reached = "init"
           \/ pc \notin {"idle", "returned"} /\
              pipeline_result'.stage_reached = StageReached
           \/ pc \notin {"idle", "returned"} /\
              StageIndex(pipeline_result'.stage_reached) =
                  StageIndex(StageReached) + 1
           \/ /\ pc \notin {"idle", "returned"}
              /\ invocation.entry = "process_text"
              /\ StageReached = "init"
              /\ pipeline_result'.stage_reached = "classify"

StageOrder == [][StageOrderStep]_all_vars

\* a process_audio invocation went through every stage
EveryStageWalked ==
    /\ PipelineReturned
    /\ invocation.entry = "process_audio"
    /\ pipeline_result.success
    /\ StageReached = "template"

\* the stage a collaborator method is called in
StageOfCall(name) ==
    CASE name = "transcribe" -> "transcribe"
      [] name = "classify" -> "classify"
      [] name \in {"query_inbox", "query_content_objects",
                   "check_duplicates"} -> "dedupe"
      [] name \in {"append_to_page", "create_inbox_item"} -> "notion"
      [] name = "refine" -> "refine"
      [] name = "format_all" -> "template"

\* the stage the invocation completes just before the given one
StageBefore(stage) ==
    CASE stage = "transcribe" -> "init"
      [] stage = "classify" ->
            IF invocation.entry = "process_audio" THEN "transcribe"
            ELSE "init"
      [] stage = "dedupe" -> "classify"
      [] stage = "notion" -> "dedupe"
      [] stage = "refine" -> "notion"
      [] stage = "template" -> "refine"

\* the collaborator calls whose exception reaches the pipeline's handler
PropagatingCalls ==
    {"transcribe", "classify", "query_inbox", "query_content_objects",
     "check_duplicates", "create_inbox_item", "refine"}

(***************************************************************************)
(* C12: when a call to the transcriber, the classifier, a candidate query, *)
(* check_duplicates, the record create or the refiner raises in            *)
(* process_text or process_audio, that call is the last collaborator call  *)
(* of the invocation, which has returned with success false, error set and *)
(* stage_reached at the stage completed before the failing one.            *)
(***************************************************************************)
CollaboratorFailureIsTerminal ==
    TextOrAudio =>
        \A k \in 1..Len(collab_log) :
            (~collab_log[k].ok /\ collab_log[k].name \in PropagatingCalls) =>
                /\ k = Len(collab_log)
                /\ PipelineReturned
                /\ ~pipeline_result.success
                /\ pipeline_result.error # None
                /\ StageReached = StageBefore(StageOfCall(collab_log[k].name))
                /\ (outcome = "raised") =
                       (collab_log[k].name = "check_duplicates")
                /\ StageIndex(StageOfCall(collab_log[k].name)) <
                       StageIndex("notion") => store_log = << >>

\* the record create failed after a create_new recommendation
CreateFailureReached ==
    /\ PipelineReturned /\ TextOrAudio
    /\ collab_log[Len(collab_log)] = CollabCall("create_inbox_item", FALSE)
    /\ PipelineRecommendation = "create_new"
    /\ StageReached = "dedupe"

(***************************************************************************)
(* C13: whatever collaborator calls fail, process_text, process_audio and  *)
(* refine_existing end by returning a PipelineResult that carries          *)
(* success, stage_reached and error; no exception goes on to the caller.   *)
(***************************************************************************)
EntryPointsAlwaysReturn ==
    /\ pc # "raised"
    /\ \A k \in 1..Len(collab_log) :
          (~collab_log[k].ok /\ collab_log[k].name # "format_all") =>
              PipelineReturned
    /\ PipelineReturned =>
          /\ pipeline_result.success \in BOOLEAN
          /\ StageReached \in {"init", "transcribe", "classify", "dedupe",
                               "notion", "refine", "template"}
          /\ pipeline_result.error \in {None} \cup
                 {Some(c) : c \in PropagatingCalls \cup {"get_page_content"}}

\* refine_existing returned a result after get_page_content raised
RefineExistingFailureReturned ==
    /\ PipelineReturned
    /\ invocation.entry = "refine_existing"
    /\ collab_log = << CollabCall("get_page_content", FALSE) >>
    /\ pipeline_result.error # None

(***************************************************************************)
(* C14: after the store action of an invocation whose recommendation is    *)
(* skip, no create and no append request was sent to the record store, and *)
(* notion_page_id is the page_id of the best match.                        *)
(***************************************************************************)
SkipMutatesNothing ==
    (StoreActionDone /\ PipelineRecommendation = "skip") =>
        /\ store_log = << >>
        /\ ~CalledCollab("append_to_page")
        /\ ~CalledCollab("create_inbox_item")
        /\ pipeline_result.notion_page_id = Some(PipelineBestPage)

\* an invocation that found a near-identical inbox record returned
SkipReturned ==
    /\ PipelineReturned /\ StoreActionDone
    /\ pipeline_result.success
    /\ PipelineRecommendation = "skip"
    /\ PipelineBestPage = "p1"

(***************************************************************************)
(* C15: after the store action of an invocation whose recommendation is    *)
(* append_to, the new text has been appended to the best match's record    *)
(* exactly once, no record was created, and notion_page_id is the page_id  *)
(* of the best match.                                                      *)
(***************************************************************************)
AppendToAppendsOnce ==
    (StoreActionDone /\ PipelineRecommendation = "append_to") =>
        /\ Cardinality(Accepted("append")) = 1
        /\ \A k \in Accepted("append") :
              /\ store_log[k].page = PipelineBestPage
              /\ store_log[k].payload = Text
        /\ \A k \in 1..Len(store_log) : store_log[k].op # "create"
        /\ pipeline_result.notion_page_id = Some(PipelineBestPage)

(***************************************************************************)
(* C16: after the store action of an invocation whose recommendation is    *)
(* create_new or review, exactly one record was created, with title, tags  *)
(* and type taken from the classification, nothing was appended to a       *)
(* record that existed before, and notion_page_id is the identifier of the *)
(* created record.                                                         *)
(***************************************************************************)
OtherwiseCreatesOne ==
    (StoreActionDone /\
     PipelineRecommendation \notin {"skip", "append_to"}) =>
        /\ PipelineRecommendation \in {"create_new", "review"}
        /\ Cardinality({k \in 1..Len(store_log) :
                           store_log[k].op = "create"}) = 1
        /\ Cardinality(Accepted("create")) = 1
        /\ \A k \in Accepted("create") :
              /\ store_log[k].payload.title =
                     pipeline_result.classification[1].title
              /\ store_log[k].payload.tags =
                     pipeline_result.classification[1].tags
              /\ store_log[k].payload.type =
                     pipeline_result.classification[1].content_type
              /\ pipeline_result.notion_page_id = Some(store_log[k].page)
        /\ \A k \in 1..Len(store_log) :
              store_log[k].op = "append" =>
                  store_log[k].page \notin PageIds
        /\ ~CalledCollab("append_to_page")

\* a review recommendation against an existing record led to a new record
ReviewCreatedRecord ==
    /\ PipelineReturned /\ StoreActionDone
    /\ PipelineRecommendation = "review"
    /\ pipeline_result.notion_page_id = Some(NewPageId)

(***************************************************************************)
(* C17: a record-store request that fails during the store action ends the *)
(* invocation as a failure: success false, error set, stage_reached left   *)
(* at dedupe; so it is when the append of an append_to action fails.       *)
(***************************************************************************)
StoreFailureIsTerminal ==
    (TextOrAudio /\ \E k \in 1..Len(store_log) : ~store_log[k].ok) =>
        /\ PipelineReturned
        /\ ~pipeline_result.success
        /\ pipeline_result.error # None
        /\ StageReached = "dedupe"

\* every collaborator call and record-store request of the invocation
\* succeeded
AllCallsSucceeded ==
    /\ \A k \in 1..Len(collab_log) : collab_log[k].ok
    /\ \A k \in 1..Len(store_log) : store_log[k].ok

(***************************************************************************)
(* C18: in process_text and process_audio the refiner is called only when  *)
(* auto_refine was requested and the template engine only when platforms   *)
(* were requested; an invocation that requested neither and whose calls    *)
(* all succeeded calls neither of them and returns success true with       *)
(* stage_reached notion.                                                   *)
(***************************************************************************)
OptionalStagesOnRequest ==
    TextOrAudio =>
        /\ (CalledCollab("refine") \/ StageReached = "refine") =>
               invocation.auto_refine
        /\ (CalledCollab("format_all") \/ StageReached = "template") =>
               /\ invocation.platforms # None
               /\ invocation.platforms[1] # << >>
        /\ (/\ PipelineReturned
            /\ ~invocation.auto_refine
            /\ invocation.platforms \in {None, Some(<< >>)}
            /\ AllCallsSucceeded) =>
               /\ pipeline_result.success
               /\ StageReached = "notion"
               /\ ~CalledCollab("refine")
               /\ ~CalledCollab("format_all")
               /\ pipeline_result.refined_content = None
               /\ pipeline_result.platform_outputs = << >>

\* a process_audio invocation that requested neither stage returned
PlainInvocationReturned ==
    /\ PipelineReturned
    /\ invocation.entry = "process_audio"
    /\ ~invocation.auto_refine /\ invocation.platforms = None
    /\ AllCallsSucceeded
    /\ Len(store_log) > 0

\* the platforms the invocation requested, in order
RequestedPlatforms ==
    IF invocation.platforms = None THEN << >> ELSE invocation.platforms[1]

\* the template loop of the invocation ran and the entry point returned
TemplateLoopDone ==
    /\ PipelineReturned
    /\ pipeline_result.refined_content # None
    /\ RequestedPlatforms # << >>

(***************************************************************************)
(* C19: after the template loop, every requested platform whose own        *)
(* formatter succeeds on the refined content has its output in             *)
(* platform_outputs, whichever other formatter failed.                     *)
(***************************************************************************)
FormatterFailuresIsolated ==
    TemplateLoopDone =>
        \A i \in 1..Len(RequestedPlatforms) :
            (/\ RequestedPlatforms[i] \in FormatAllKeys
             /\ ~Formatter(RequestedPlatforms[i],
                           pipeline_result.refined_content[1]).raised) =>
                RequestedPlatforms[i] \in DOMAIN pipeline_result.platform_outputs

(***************************************************************************)
(* C20: when the template loop meets a platform name the template engine   *)
(* has no formatter for, no output is recorded under that name, the loop   *)
(* goes on through every requested platform (recording the output of each  *)
(* known one when format_all returns), and the invocation ends with        *)
(* success true and stage_reached template.                                *)
(***************************************************************************)
UnknownPlatformIsSkipped ==
    (TemplateLoopDone /\
     \E i \in 1..Len(RequestedPlatforms) :
         RequestedPlatforms[i] \notin FormatAllKeys) =>
        /\ \A i \in 1..Len(RequestedPlatforms) :
              RequestedPlatforms[i] \notin FormatAllKeys =>
                  RequestedPlatforms[i] \notin
                      DOMAIN pipeline_result.platform_outputs
        /\ Cardinality({k \in 1..Len(collab_log) :
                           collab_log[k].name = "format_all"}) =
               Len(RequestedPlatforms)
        /\ \A i \in 1..Len(RequestedPlatforms) :
              (/\ RequestedPlatforms[i] \in FormatAllKeys
               /\ ~format_all(pipeline_result.refined_content[1]).raised) =>
                  RequestedPlatforms[i] \in
                      DOMAIN pipeline_result.platform_outputs
        /\ pipeline_result.success
        /\ pipeline_result.error = None
        /\ StageReached = "template"

\* an unknown platform came first in the list and the known one after it
\* still got its output
UnknownThenKnownReached ==
    /\ TemplateLoopDone
    /\ RequestedPlatforms = << "tiktok", "twitter_thread" >>
    /\ DOMAIN pipeline_result.platform_outputs = {"twitter_thread"}

(***************************************************************************)
(* Classifier.classify (src/classify.py): the language model's answer is   *)
(* a text; json.loads either rejects it or yields a JSON value, which is   *)
(* an object only if the model kept to the format.                         *)
(***************************************************************************)
\* the bound: how far around the truncation lengths the texts reach
ExtraChars == 1

\* text[:100] and text[:200] of the default classification
TitleChars == 100
MainIdeaChars == 200

every_var == << vars, pipeline_vars, aux_vars >>

\* the texts classified: empty, and of the lengths around the truncations
TextOfLen(n) == [i \in 1..n |-> "q"]
ClassifyTexts ==
    {TextOfLen(0)} \cup
    {TextOfLen(n + d) : n \in {TitleChars, MainIdeaChars},
                        d \in (0 - ExtraChars)..ExtraChars}

\* what json.loads makes of the answer: nothing (not JSON), or a JSON
\* value of some kind, an object with its members
NotJson == [json |-> FALSE]
JsonValue(kind, members) == [json |-> TRUE, kind |-> kind,
                             members |-> members]
ResponseBodies ==
    {NotJson,
     JsonValue("object", [k \in {"title", "tags"} |->
                             IF k = "title" THEN << "T" >> ELSE << "g" >>]),
     JsonValue("object", << >>),
     JsonValue("array", << >>),
     JsonValue("string", << >>),
     JsonValue("number", << >>),
     JsonValue("null", << >>),
     JsonValue("true", << >>)}

\* the answer comes bare, in a ```json block or in a ``` block
Responses ==
    {[fence |-> f, body |-> b] : f \in {"none", "json", "plain"},
                                 b \in ResponseBodies}

\* response_text.split("```json")[1].split("```")[0] and its ``` variant:
\* the text inside the block, or the whole text
StripFence(response) == response.body

\* json.loads(response_text.strip()): JSONDecodeError, or the value
json_loads(body) ==
    IF body.json THEN [raised |-> FALSE, value |-> Some(body)]
    ELSE [raised |-> TRUE, value |-> None]

\* data.get(key, default)
DataGet(data, key, default) ==
    IF key \in DOMAIN data.members THEN data.members[key] ELSE default

\* the ClassificationResult of the except json.JSONDecodeError clause
DefaultClassification(text) ==
    [title |-> IF Len(text) > TitleChars
               THEN SubSeq(text, 1, TitleChars) \o << ".", ".", "." >>
               ELSE text,
     content_type |-> "Essay", priority |-> "Backlog", category |-> "Other",
     tags |-> << >>,
     main_idea |-> IF Len(text) > MainIdeaChars
                   THEN SubSeq(text, 1, MainIdeaChars) ELSE text,
     atomic_ideas |-> << >>]

\* the ClassificationResult built from the members of the parsed object
ParsedClassification(data) ==
    [title |-> DataGet(data, "title", << "U" >>),
     content_type |-> DataGet(data, "content_type", "Essay"),
     priority |-> DataGet(data, "priority", "Backlog"),
     category |-> DataGet(data, "category", "Other"),
     tags |-> DataGet(data, "tags", << >>),
     main_idea |-> DataGet(data, "main_idea", << >>),
     atomic_ideas |-> DataGet(data, "atomic_ideas", << >>)]

\* Classifier.classify from the model's answer on: a value that is not an
\* object has no .get, the AttributeError leaves classify
classify(text, response) ==
    LET parsed == json_loads(StripFence(response))
    IN  IF parsed.raised
        THEN [raised |-> FALSE, result |-> Some(DefaultClassification(text))]
        ELSE IF parsed.value[1].kind # "object"
        THEN [raised |-> TRUE, result |-> None]
        ELSE [raised |-> FALSE,
              result |-> Some(ParsedClassification(parsed.value[1]))]

\* a classify call is about to parse the model's answer
InitClassifier ==
    /\ DeduplicatorInit
    /\ PipelineInit
    /\ similarity_call = NoSimilarityCall
    /\ processing = {}
    /\ callbacks = << >>
    /\ on_disk = {}
    /\ processed_dir = None
    /\ classify_call \in
           {[text |-> t, response |-> Some(r), outcome |-> "called"] :
               t \in ClassifyTexts, r \in Responses}

\* Classifier.classify returns or raises
ClassifierClassify ==
    /\ classify_call.outcome = "called"
    /\ \E r \in {classify(classify_call.text, classify_call.response[1])} :
          classify_call' =
              [text |-> classify_call.text,
               response |-> classify_call.response,
               outcome |-> IF r.raised THEN "raised" ELSE "returned",
               result |-> r.result]
    /\ UNCHANGED << vars, pipeline_vars >>
    /\ UNCHANGED << similarity_call, watcher_vars >>

NextClassifier == ClassifierClassify

SpecClassifier == InitClassifier /\ [][NextClassifier]_every_var

\* the model's answer is a well-formed classification object
WellFormed(response) ==
    response.body.json /\ response.body.kind = "object"

(***************************************************************************)
(* C21: when the model's answer is not a well-formed classification        *)
(* object (not JSON at all, or JSON that is not an object), classify       *)
(* returns the default ClassificationResult made from the truncated input  *)
(* text and does not raise.                                                *)
(***************************************************************************)
MalformedAnswerDegrades ==
    (classify_call.outcome \in {"returned", "raised"} /\
     ~WellFormed(classify_call.response[1])) =>
        /\ classify_call.outcome = "returned"
        /\ classify_call.result =
               Some(DefaultClassification(classify_call.text))

(***************************************************************************)
(* Deduplicator.compute_similarity on vectors of its own.                  *)
(***************************************************************************)
\* the bound: the coordinates of the vectors compared
MaxCoord == 2

Vectors == {<< x, y >> : x, y \in (0 - MaxCoord)..MaxCoord}
Negation(v) == << 0 - v[1], 0 - v[2] >>
UnitVectors == {<< 1, 0 >>, << 0, 1 >>, << 0 - 1, 0 >>, << 0, 0 - 1 >>}

\* compute_similarity is about to be called on two vectors
InitSimilarity ==
    /\ DeduplicatorInit
    /\ PipelineInit
    /\ classify_call = NoClassifyCall
    /\ processing = {}
    /\ callbacks = << >>
    /\ on_disk = {}
    /\ processed_dir = None
    /\ similarity_call \in
           {[embedding1 |-> a, embedding2 |-> b, similarity |-> None] :
               a, b \in Vectors}

\* Deduplicator.compute_similarity returns
ComputeSimilarity ==
    /\ similarity_call.similarity = None
    /\ similarity_call' =
           [similarity_call EXCEPT
               !.similarity = Some(compute_similarity(
                                       similarity_call.embedding1,
                                       similarity_call.embedding2))]
    /\ UNCHANGED << vars, pipeline_vars >>
    /\ UNCHANGED << classify_call, watcher_vars >>

NextSimilarity == ComputeSimilarity

SpecSimilarity == InitSimilarity /\ [][NextSimilarity]_every_var

(***************************************************************************)
(* C22: compute_similarity is 1.0 for a non-zero vector and itself, -1.0   *)
(* for a non-zero vector and its negation, and 0.0 for two orthogonal unit *)
(* vectors.                                                                *)
(***************************************************************************)
SimilarityOfSelfNegationOrthogonal ==
    similarity_call.similarity # None =>
        LET a == similarity_call.embedding1
            b == similarity_call.embedding2
            s == similarity_call.similarity[1]
        IN  /\ (a # << 0, 0 >> /\ b = a) => s = Scale
            /\ (a # << 0, 0 >> /\ b = Negation(a)) => s = 0 - Scale
            /\ (a \in UnitVectors /\ b \in UnitVectors /\ Dot(a, b) = 0) =>
                   s = 0

\* a vector that is not a unit vector was compared with its negation
NegationCompared ==
    /\ similarity_call.similarity # None
    /\ similarity_call.embedding1 = << 2, 0 - 1 >>
    /\ similarity_call.embedding2 = << 0 - 2, 1 >>

(***************************************************************************)
(* C23 as stated: whenever check_duplicates recommends skip or append_to,  *)
(* is_duplicate is true, for every effective threshold.                    *)
(***************************************************************************)
AutomaticActionIsDuplicate ==
    (Returned /\ result.recommendation \in {"skip", "append_to"}) =>
        result.is_duplicate = Some(TRUE)

(***************************************************************************)
(* C23: a recommendation append_to comes with is_duplicate true; a         *)
(* recommendation skip comes with a best score of at least 0.95 and with   *)
(* is_duplicate true exactly when the effective threshold is at most that  *)
(* score, hence always when the threshold is at most 0.95.                 *)
(***************************************************************************)
AutomaticActionIsDuplicateUpToSkipScore ==
    Returned =>
        /\ result.recommendation = "append_to" =>
               /\ result.is_duplicate = Some(TRUE)
               /\ BestScore >= call.effective
        /\ result.recommendation = "skip" =>
               /\ BestScore >= SkipScore
               /\ result.is_duplicate = Some(call.effective <= BestScore)
               /\ call.effective <= SkipScore =>
                      result.is_duplicate = Some(TRUE)

\* a merge at exactly the threshold, flagged as duplicate
AppendAtThresholdIsDuplicate ==
    /\ Returned /\ HasBest
    /\ result.recommendation = "append_to"
    /\ BestScore = call.effective
    /\ result.is_duplicate = Some(TRUE)

(***************************************************************************)
(* C24: check_duplicates recommends create_new if and only if it returns   *)
(* no match: a best match passed the inclusion filter, so one of skip,     *)
(* append_to and review applies to it.                                     *)
(***************************************************************************)
CreateNewIffNoMatch ==
    Returned =>
        /\ (result.recommendation = "create_new") = (result.matches = << >>)
        /\ (result.matches = << >>) = (result.best_match = None)
        /\ HasBest => 5 * BestScore >= 4 * call.effective

\* candidates were scored and none of them passed the inclusion filter
NoMatchAmongCandidates ==
    /\ Returned
    /\ call.existing_items # << >>
    /\ result.matches = << >>
    /\ result.recommendation = "create_new"

(***************************************************************************)
(* The embedding cache against candidates whose text was edited.  The      *)
(* cache is keyed by page_id alone (dedupe.py:101-105), so the same page   *)
(* can be offered with two different texts across calls and within one.    *)
(***************************************************************************)
\* pages p1 and p2 after an edit: p1 now reads as Item2 does, p2 as Item1
Item1Edited == [Item1 EXCEPT !.text = Item2.text]
Item2Edited == [Item2 EXCEPT !.text = Item1.text]
EditedItems == {Item1, Item1Edited, Item2, Item2Edited}

\* check_duplicates(new_text, existing_items) over original and edited pages
CheckDuplicatesEdited ==
    \E new_text \in NewTexts,
       existing_items \in SeqsUpTo(EditedItems, MaxItems) :
        /\ Call(new_text, existing_items, None, 0)
        /\ UNCHANGED pipeline_vars

\* the candidate lists that hold every item of S once
Orderings(S) ==
    {s \in SeqsOfLen(S, Cardinality(S)) :
        \A i, j \in 1..Cardinality(S) : i # j => s[i] # s[j]}

\* check_duplicates(new_text, existing_items) on three candidates with
\* different pages, the provider failing at one of the calls made to it
CheckDuplicatesFailing ==
    \E new_text \in NewTexts, existing_items \in Orderings(Items) :
        \E fail_at \in 1..(Len(existing_items) + 1) :
            /\ Call(new_text, existing_items, None, fail_at)
            /\ UNCHANGED pipeline_vars

NextCache ==
    \/ CheckDuplicatesEdited
    \/ CheckDuplicatesFailing
    \/ ClearCache

SpecCache == Init /\ [][NextCache]_vars

\* the first candidate of items that carries page_id p
FirstWith(items, p) ==
    items[CHOOSE j \in 1..Len(items) :
              /\ items[j].page_id = p
              /\ \A h \in 1..(j - 1) : items[h].page_id # p]
\* the embedding the text of an item has at the provider
FreshEmbedding(item) == ProviderEmbedding(Truncate(ItemText(item)))
\* the embedding a call scores page p with: the one cached before the call,
\* or else the one of the first text the call supplies for p
ServedEmbedding(cache, items, p) ==
    IF p \in DOMAIN cache THEN cache[p]
    ELSE FreshEmbedding(FirstWith(items, p))

\* C25: once a page_id is in the embedding cache, every later scoring of a
\* candidate with that page_id uses the embedding of the text supplied the
\* first time, makes no provider call for it and leaves the entry as it was,
\* whatever text the candidate now carries; only clear_cache ends this.
StaleCachePersists ==
    /\ outcome = "cleared" => embedding_cache = << >>
    /\ outcome \in {"returned", "raised"} =>
           \A p \in DOMAIN call.cache_before :
               /\ p \in DOMAIN embedding_cache
               /\ embedding_cache[p] = call.cache_before[p]
    /\ Returned =>
           /\ \A i \in 1..NumItems :
                  LET p == call.existing_items[i].page_id
                      e == ServedEmbedding(call.cache_before,
                                           call.existing_items, p)
                      s == compute_similarity(
                               ProviderEmbedding(Truncate(call.new_text)), e)
                  IN  /\ embedding_cache[p] = e
                      /\ CallsFor(provider_log, p) =
                             IF p \in DOMAIN call.cache_before THEN 0 ELSE 1
                      /\ Included(s, call.effective) =>
                             \E k \in 1..Len(result.matches) :
                                 /\ result.matches[k].page_id = p
                                 /\ result.matches[k].similarity_score = s
           /\ \A k \in 1..Len(result.matches) :
                  result.matches[k].similarity_score =
                      compute_similarity(
                          ProviderEmbedding(Truncate(call.new_text)),
                          ServedEmbedding(call.cache_before,
                                          call.existing_items,
                                          result.matches[k].page_id))

\* a returned call scored an edited page with the embedding cached from the
\* page's earlier text, and the edited text would have scored differently
EditedPageScoredStale ==
    /\ Returned
    /\ \E i \in 1..NumItems :
           LET p == call.existing_items[i].page_id
               new == ProviderEmbedding(Truncate(call.new_text))
           IN  /\ p \in DOMAIN call.cache_before
               /\ call.cache_before[p] # FreshEmbedding(call.existing_items[i])
               /\ embedding_cache[p] = call.cache_before[p]
               /\ compute_similarity(new, call.cache_before[p]) #
                      compute_similarity(new,
                          FreshEmbedding(call.existing_items[i]))
               /\ \E k \in 1..Len(result.matches) :
                      /\ result.matches[k].page_id = p
                      /\ result.matches[k].similarity_score =
                             compute_similarity(new, call.cache_before[p])

\* the provider call that raised was made for a candidate, not for new_text
RaisedAtCandidate ==
    /\ Raised
    /\ provider_log[Len(provider_log)].key # "new_text"
\* the position in existing_items of the candidate whose embedding failed:
\* the first candidate that carries the page the failed call was made for
FailedAt ==
    CHOOSE k \in 1..NumItems :
        /\ call.existing_items[k].page_id =
               provider_log[Len(provider_log)].key
        /\ \A h \in 1..(k - 1) :
               call.existing_items[h].page_id # call.existing_items[k].page_id
\* the pages of candidates 1..n of the last call
PagesUpTo(n) == {call.existing_items[i].page_id : i \in 1..n}

\* C26: when the provider fails while embedding the k-th candidate, the call
\* raises without a DedupeResult, the failed call is the last one made to the
\* provider (no later candidate is embedded or scored), and the cache is the
\* cache the call started with plus the embeddings stored for candidates
\* 1..k-1; the failed page itself is not cached.
CandidateFailureKeepsCache ==
    RaisedAtCandidate =>
        /\ result = NoResult
        /\ \A n \in 1..Len(provider_log) :
               provider_log[n].ok = (n < Len(provider_log))
        /\ {provider_log[n].key : n \in 2..Len(provider_log)} \subseteq
               PagesUpTo(FailedAt)
        /\ \A p \in PagesUpTo(NumItems) \ PagesUpTo(FailedAt) :
               CallsFor(provider_log, p) = 0
        /\ DOMAIN embedding_cache =
               DOMAIN call.cache_before \cup PagesUpTo(FailedAt - 1)
        /\ call.existing_items[FailedAt].page_id \notin DOMAIN embedding_cache
        /\ \A p \in DOMAIN embedding_cache :
               embedding_cache[p] =
                   ServedEmbedding(call.cache_before, call.existing_items, p)

\* the provider failed at the second candidate of a call with three: the
\* first candidate's embedding was stored during the call and is still
\* cached, the third candidate was never sent to the provider
FailedMidLoop ==
    /\ RaisedAtCandidate
    /\ NumItems = 3
    /\ FailedAt = 2
    /\ call.existing_items[1].page_id \notin DOMAIN call.cache_before
    /\ call.existing_items[1].page_id \in DOMAIN embedding_cache
    /\ call.existing_items[3].page_id \notin DOMAIN embedding_cache
    /\ CallsFor(provider_log, call.existing_items[3].page_id) = 0

(***************************************************************************)
(* Success and completion of the stages.                                   *)
(***************************************************************************)
\* the invocation asked for the refine stage
RefineAsked == invocation.entry = "refine_existing" \/ invocation.auto_refine
\* no collaborator call outside the template loop failed and the record
\* store accepted every request
StagesCompleted ==
    /\ \A k \in 1..Len(collab_log) :
           collab_log[k].name # "format_all" => collab_log[k].ok
    /\ \A k \in 1..Len(store_log) : store_log[k].ok
\* success is true exactly when error is absent
SuccessIffNoError ==
    PipelineReturned =>
        (pipeline_result.success = (pipeline_result.error = None))

\* C27: on every return of process_text, process_audio and refine_existing,
\* success is true exactly when error is absent, and success true means that
\* every required stage and every requested stage has completed: no call of a
\* stage failed, the store accepted what was sent to it, stage_reached is at
\* or past notion (text and audio), refined content is there when refine was
\* asked for, and stage_reached is template when platforms were requested.
SuccessOnlyWhenComplete ==
    PipelineReturned =>
        /\ pipeline_result.success = (pipeline_result.error = None)
        /\ pipeline_result.success =>
               /\ StagesCompleted
               /\ TextOrAudio =>
                      /\ StageIndex(StageReached) >= StageIndex("notion")
                      /\ pipeline_result.classification # None
                      /\ pipeline_result.dedupe_result # None
                      /\ pipeline_result.notion_page_id # None
               /\ invocation.entry = "process_audio" =>
                      pipeline_result.transcript # None
               /\ RefineAsked => pipeline_result.refined_content # None
               /\ TemplateRequested(invocation.platforms) =>
                      StageReached = "template"

\* platforms were requested and auto_refine was not
PlatformsWithoutRefine ==
    /\ TextOrAudio
    /\ TemplateRequested(invocation.platforms)
    /\ ~invocation.auto_refine

(***************************************************************************)
(* C28: in process_text and process_audio the template stage is nested in  *)
(* the refine stage: the template engine is called only after the refiner  *)
(* returned; when platforms are requested without auto_refine the template *)
(* engine is never called, platform_outputs stays empty and an invocation   *)
(* whose calls all returned ends with success true and stage_reached        *)
(* notion; stage_reached template implies refined_content is present.      *)
(***************************************************************************)
TemplateNestedInRefine ==
    /\ StageReached = "template" => pipeline_result.refined_content # None
    /\ TextOrAudio =>
           \A k \in 1..Len(collab_log) :
               collab_log[k].name = "format_all" =>
                   /\ invocation.auto_refine
                   /\ \E h \in 1..(k - 1) :
                          collab_log[h].name = "refine" /\ collab_log[h].ok
    /\ PlatformsWithoutRefine =>
           /\ ~CalledCollab("format_all")
           /\ ~CalledCollab("refine")
           /\ pipeline_result.platform_outputs = << >>
           /\ pipeline_result.refined_content = None
           /\ StageReached # "template"
           /\ PipelineReturned =>
                  /\ pipeline_result.success =>
                         StageReached = "notion"
                  /\ (\A k \in 1..Len(collab_log) : collab_log[k].ok) =>
                         pipeline_result.success

\* platforms were requested without auto_refine and the invocation returned
\* success at stage notion with no platform output
PlatformsIgnoredReturned ==
    /\ PlatformsWithoutRefine
    /\ PipelineReturned
    /\ pipeline_result.success
    /\ StageReached = "notion"
    /\ pipeline_result.platform_outputs = << >>
    /\ ~CalledCollab("format_all")

\* the refiner raised in the invocation
RefineFailed ==
    /\ collab_log # << >>
    /\ collab_log[Len(collab_log)].name = "refine"
    /\ ~collab_log[Len(collab_log)].ok
\* the requests of the invocation that the record store accepted
AcceptedRequests == Accepted("create") \cup Accepted("append")

MaxCallbacks == 2

\* VoiceMemoHandler.AUDIO_EXTENSIONS, as far as the events below go
AUDIO_EXTENSIONS == {".m4a", ".wav"}
\* str.lower on the suffixes of the events below
Lower(suffix) ==
    CASE suffix = ".M4A" -> ".m4a"
      [] OTHER -> suffix
\* the creation events the observer hands to the handler
FileCreatedEvents ==
    {[src_path |-> [name |-> "memo", suffix |-> ".M4A"],
      is_directory |-> FALSE],
     [src_path |-> [name |-> "note", suffix |-> ".wav"],
      is_directory |-> FALSE],
     [src_path |-> [name |-> "readme", suffix |-> ".txt"],
      is_directory |-> FALSE],
     [src_path |-> [name |-> "archive", suffix |-> ""],
      is_directory |-> TRUE]}
\* what pipeline.process_audio and the logging after it come to
ProcessOutcomes == {"success", "failed", "exception"}
\* the statements of a callback that belong to a process_file execution
InProcessFile == {"add", "process_audio", "finally"}

InitWatcher ==
    /\ DeduplicatorInit
    /\ PipelineInit
    /\ similarity_call = NoSimilarityCall
    /\ classify_call = NoClassifyCall
    /\ processing = {}
    /\ callbacks = << >>
    /\ on_disk = {}
    /\ processed_dir \in {None, Some("processed")}

WatcherStep ==
    UNCHANGED << vars, pipeline_vars, similarity_call, classify_call,
                 processed_dir >>

\* the callback c moves on to statement at
Goto(c, at) == callbacks' = [callbacks EXCEPT ![c].at = at]

\* a file or directory appears in the folder and on_created is called:
\* the directory and extension filters
on_created ==
    /\ Len(callbacks) < MaxCallbacks
    /\ \E event \in FileCreatedEvents :
         /\ on_disk' = on_disk \cup {event.src_path}
         /\ callbacks' =
                Append(callbacks,
                       [file_path |-> event.src_path,
                        at |-> IF event.is_directory THEN "done"
                               ELSE IF Lower(event.src_path.suffix) \notin
                                           AUDIO_EXTENSIONS
                                    THEN "done"
                                    ELSE "check"])
    /\ UNCHANGED processing
    /\ WatcherStep

\* if str(file_path) in self.processing: return
CheckProcessing ==
    /\ \E c \in 1..Len(callbacks) :
         /\ callbacks[c].at = "check"
         /\ IF callbacks[c].file_path \in processing
            THEN Goto(c, "done")
            ELSE Goto(c, "sleep")
    /\ UNCHANGED << processing, on_disk >>
    /\ WatcherStep

\* time.sleep(2); if not file_path.exists(): return; self.process_file(...)
SleepThenExists ==
    /\ \E c \in 1..Len(callbacks) :
         /\ callbacks[c].at = "sleep"
         /\ IF callbacks[c].file_path \notin on_disk
            THEN Goto(c, "done")
            ELSE Goto(c, "add")
    /\ UNCHANGED << processing, on_disk >>
    /\ WatcherStep

\* process_file: self.processing.add(str(file_path))
AddProcessing ==
    /\ \E c \in 1..Len(callbacks) :
         /\ callbacks[c].at = "add"
         /\ processing' = processing \cup {callbacks[c].file_path}
         /\ Goto(c, "process_audio")
    /\ UNCHANGED on_disk
    /\ WatcherStep

\* process_file: the try block.  pipeline.process_audio returns a success or
\* a failure or raises; after a success the file is moved to processed_dir
\* if there is one (the rename of a file that is gone raises, which the
\* except clause logs like any other exception)
ProcessAudio ==
    /\ \E c \in 1..Len(callbacks), end \in ProcessOutcomes :
         /\ callbacks[c].at = "process_audio"
         /\ on_disk' = IF end = "success" /\ processed_dir # None
                       THEN on_disk \ {callbacks[c].file_path}
                       ELSE on_disk
         /\ Goto(c, "finally")
    /\ UNCHANGED processing
    /\ WatcherStep

\* process_file: finally: self.processing.discard(str(file_path))
FinallyDiscard ==
    /\ \E c \in 1..Len(callbacks) :
         /\ callbacks[c].at = "finally"
         /\ processing' = processing \ {callbacks[c].file_path}
         /\ Goto(c, "done")
    /\ UNCHANGED on_disk
    /\ WatcherStep

NextWatcher ==
    \/ on_created
    \/ CheckProcessing
    \/ SleepThenExists
    \/ AddProcessing
    \/ ProcessAudio
    \/ FinallyDiscard

SpecWatcher == InitWatcher /\ [][NextWatcher]_every_var

\* the callbacks that are inside process_file for the path
Processing(file_path) ==
    {c \in 1..Len(callbacks) :
        callbacks[c].file_path = file_path /\ callbacks[c].at \in InProcessFile}

\* a process_file execution for a path has returned and none is in progress
ProcessFileReturned ==
    \E c \in 1..Len(callbacks) :
        /\ callbacks[c].at = "done"
        /\ Lower(callbacks[c].file_path.suffix) \in AUDIO_EXTENSIONS
        /\ Processing(callbacks[c].file_path) = {}
        /\ callbacks[c].file_path \notin processing

DiscardedOnReturn ==
    \A file_path \in processing : Processing(file_path) # {}

====
